---- MODULE Spec2Model ----
(***************************************************************************)
(* A model of audit/dep_scan.py: the regex based TS/TSX dependency scanner *)
(* (comment stripping, import / export extraction, module resolution and   *)
(* the worklist closure over the import graph).                            *)
(*                                                                         *)
(* Source text, module specifiers and paths are TLA+ strings, handled      *)
(* character by character the way the Python code handles them.  A value   *)
(* of type `frozenset[str] | None` is a record: NoneVal, or Some(S).       *)
(* The characters are U+0001..U+00FF without the grave accent (U+0060).    *)
(***************************************************************************)
EXTENDS Naturals, Sequences, FiniteSets, TLC

VARIABLES
    fs,             \* the file system: the path of every regular file -> its
                    \* decoded content, line ends as they are on disk
    unreadable,     \* the regular files whose read fails (bytes that are not UTF-8)
    cache_text,     \* the lru_cache of read_text
    cache_imports,  \* the lru_cache of parse_imports
    cache_exports,  \* the lru_cache of parse_export_map
    pc,             \* "idle", "loop" inside dependency_closure's while loop,
                    \* "raised" when an OSError has left dependency_closure
    entry_points,   \* the arguments of the current (or last) dependency_closure call
    max_files,
    visited,        \* its local `visited`
    queue,          \* its local `queue`; list.pop() takes the last element
    results,        \* the sets the calls made so far returned, in order
    fn,             \* the function a pure-function specification applies
    inp,            \* its input
    out             \* its result, Pending before the call

caches == <<cache_text, cache_imports, cache_exports>>
call == <<pc, entry_points, max_files, visited, queue, results>>
pure == <<fn, inp, out>>
disk == <<fs, unreadable>>
vars == <<disk, caches, call, pure>>

-----------------------------------------------------------------------------
(* Python str primitives *)

Min(S) == CHOOSE m \in S : \A k \in S : m <= k

\* s[i-1] in Python terms (positions are 1-based here); "" outside the string
Ch(s, i) == IF i >= 1 /\ i <= Len(s) THEN SubSeq(s, i, i) ELSE ""

\* s[i-1:]
From(s, i) == IF i > Len(s) THEN "" ELSE SubSeq(s, i, Len(s))

\* s.startswith(p, i-1)
StartsAt(s, i, p) ==
    /\ i >= 1
    /\ i + Len(p) - 1 <= Len(s)
    /\ SubSeq(s, i, i + Len(p) - 1) = p

startswith(s, p) == StartsAt(s, 1, p)

\* the white space of str.strip() and of \s in a str pattern, up to U+00FF:
\* U+0009..U+000D, U+001C..U+001F, U+0020, U+0085 and U+00A0
IsSpace(c) ==
    c \in {"\t", "\n", "", "\f", "\r", "", "", "", "", " ", "", " "}

\* the characters of the regex class \w in a str pattern, up to U+00FF
IsWord(c) ==
    c \in {"a","b","c","d","e","f","g","h","i","j","k","l","m","n","o","p","q",
           "r","s","t","u","v","w","x","y","z","A","B","C","D","E","F","G","H",
           "I","J","K","L","M","N","O","P","Q","R","S","T","U","V","W","X","Y",
           "Z","0","1","2","3","4","5","6","7","8","9","_",
           "ª","²","³","µ","¹","º","¼","½","¾","À","Á","Â","Ã","Ä","Å","Æ","Ç",
           "È","É","Ê","Ë","Ì","Í","Î","Ï","Ð","Ñ","Ò","Ó","Ô","Õ","Ö","Ø","Ù",
           "Ú","Û","Ü","Ý","Þ","ß","à","á","â","ã","ä","å","æ","ç","è","é","ê",
           "ë","ì","í","î","ï","ð","ñ","ò","ó","ô","õ","ö","ø","ù","ú","û","ü",
           "ý","þ","ÿ"}

IsQuote(c) == c \in {"\"", "'"}

\* the least j in lo..hi with f[j], 0 if there is none
First(lo, hi, f) ==
    IF \E j \in lo..hi : f[j]
    THEN CHOOSE j \in lo..hi : f[j] /\ \A k \in lo..(j - 1) : ~f[k]
    ELSE 0

\* the greatest j in lo..hi with f[j], 0 if there is none
Last(lo, hi, f) ==
    IF \E j \in lo..hi : f[j]
    THEN CHOOSE j \in lo..hi : f[j] /\ \A k \in (j + 1)..hi : ~f[k]
    ELSE 0

\* the elements seq[i] with keep[i], in order
RECURSIVE Filter(_, _)
Filter(seq, keep) ==
    IF Len(seq) = 0 THEN <<>>
    ELSE LET Add(front) ==
                 IF keep[Len(seq)] THEN Append(front, seq[Len(seq)]) ELSE front
         IN  Add(Filter(SubSeq(seq, 1, Len(seq) - 1), keep))

\* s.find(p, from-1) + 1: the first position >= from where p stands, 0 if none
IndexOf(s, p, from) == First(from, Len(s), [j \in from..Len(s) |-> StartsAt(s, j, p)])

\* s.rfind(p, 0, upto) + 1
LastIndexOf(s, p, upto) == Last(1, upto, [j \in 1..upto |-> StartsAt(s, j, p)])

\* p in s
Contains(s, p) == IndexOf(s, p, 1) # 0

\* the characters U+0020..U+007E other than the grave accent
Ascii ==
    " !\"#$%&'()*+,-./0123456789:;<=>?@ABCDEFGHIJKLMNOPQRSTUVWXYZ[\\]^_abcdefghijklmnopqrstuvwxyz{|}~"

\* the characters U+0001..U+001F and U+007F..U+00FF, in code point order
Low ==
    "\t\n\f\r"

High ==
    " ¡¢£¤¥¦§¨©ª«¬­®¯°±²³´µ¶·¸¹º»¼½¾¿ÀÁÂÃÄÅÆÇÈÉÊËÌÍÎÏÐÑÒÓÔÕÖ×ØÙÚÛÜÝÞßàáâãäåæçèéêëìíîïðñòóôõö÷øùúûüýþÿ"

\* ord(c) for the characters U+0001..U+00FF other than the grave accent
\* (U+0060), which a string of this module cannot hold
Ord(c) ==
    LET Printable(i) == IF i = 0 THEN 0 ELSE IF i <= 64 THEN 31 + i ELSE 32 + i
        Other(i, k) == IF i # 0 THEN i ELSE IF k # 0 THEN 126 + k ELSE 0
    IN  IF Contains(Ascii, c) THEN Printable(IndexOf(Ascii, c, 1))
        ELSE Other(IndexOf(Low, c, 1), IndexOf(High, c, 1))

\* the length of s in UTF-8, the encoding of the file system: a character
\* from U+0080 on (Wide) takes two bytes
Wide == {SubSeq(High, j, j) : j \in 2..Len(High)}

Bytes(s) == Len(s) + Cardinality({i \in 1..Len(s) : SubSeq(s, i, i) \in Wide})

\* the length of the run of white space that starts at position i
WsRun(s, i) ==
    IF i > Len(s) THEN 0
    ELSE First(i, Len(s) + 1, [j \in i..(Len(s) + 1) |-> ~IsSpace(Ch(s, j))]) - i

\* the length of the run of [^"'] that starts at position i
NonQuoteRun(s, i) ==
    IF i > Len(s) THEN 0
    ELSE First(i, Len(s) + 1, [j \in i..(Len(s) + 1) |-> j > Len(s) \/ IsQuote(Ch(s, j))]) - i

\* s.strip()
strip(s) ==
    LET Cut(a) ==
            IF a = 0 THEN ""
            ELSE SubSeq(s, a, Last(1, Len(s), [j \in 1..Len(s) |-> ~IsSpace(Ch(s, j))]))
    IN  Cut(First(1, Len(s), [j \in 1..Len(s) |-> ~IsSpace(Ch(s, j))]))

\* s.split(sep): the sequence of the parts
RECURSIVE split(_, _)
split(s, sep) ==
    LET Cut(i) ==
            IF i = 0 THEN <<s>>
            ELSE <<SubSeq(s, 1, i - 1)>> \o split(From(s, i + Len(sep)), sep)
    IN  Cut(IndexOf(s, sep, 1))

\* s.split(sep, 1)
split1(s, sep) ==
    LET Cut(i) ==
            IF i = 0 THEN <<s>>
            ELSE <<SubSeq(s, 1, i - 1), From(s, i + Len(sep))>>
    IN  Cut(IndexOf(s, sep, 1))

\* re.sub(r"^type\s+", "", token)
sub_type_prefix(token) ==
    LET Cut(w) == IF startswith(token, "type") /\ w >= 1 THEN From(token, 5 + w) ELSE token
    IN  Cut(WsRun(token, 5))

Range(f) == {f[i] : i \in DOMAIN f}

\* sep.join(l)
RECURSIVE Join(_, _)
Join(l, sep) ==
    IF Len(l) = 0 THEN ""
    ELSE IF Len(l) = 1 THEN l[1]
    ELSE l[1] \o sep \o Join(Tail(l), sep)

-----------------------------------------------------------------------------
(* frozenset[str] | None *)

NoneVal == [is_none |-> TRUE, names |-> {}]
Some(S) == [is_none |-> FALSE, names |-> S]

\* `frozenset(imported) if imported else None`
SomeOrNone(S) == IF S = {} THEN NoneVal ELSE Some(S)

\* a faulty test, to compare with: the barrel step runs for every file
always_truthy(r) == TRUE

\* the truth value Python gives the object in `if requested:`
Truthy(r) == ~r.is_none /\ r.names # {}

Pending == [pending |-> TRUE]

-----------------------------------------------------------------------------
(* parse_import_clause *)

\* one token of the braced list, after strip(): the names it adds to `imported`
import_token_names(part) ==
    LET NonEmpty(name) == IF name # "" THEN {name} ELSE {}
        Name(token) ==
            IF startswith(token, "default as ")
            THEN {strip(From(token, Len("default as ") + 1))}
            ELSE IF Contains(token, " as ")
                 THEN NonEmpty(strip(split1(token, " as ")[1]))
            ELSE NonEmpty(token)
        Tok(p) == IF p = "" THEN {} ELSE Name(sub_type_prefix(p))
    IN  Tok(strip(part))

\* the loop over inside.split(",")
braced_names(inside) ==
    LET Each(parts) == UNION {import_token_names(parts[i]) : i \in DOMAIN parts}
    IN  Each(split(inside, ","))

\* from `if "{" not in raw and raw and not raw.startswith("*")` to the end,
\* entered with the names collected so far
clause_names(imported, raw) ==
    LET Braces(open, close) ==
            IF open = 0 /\ raw # "" /\ ~startswith(raw, "*")
            THEN Some(imported \cup {"default"})
            ELSE IF open = 0 \/ close < open
                 THEN SomeOrNone(imported)
            ELSE SomeOrNone(imported \cup braced_names(SubSeq(raw, open + 1, close - 1)))
    IN  Braces(IndexOf(raw, "{", 1), LastIndexOf(raw, "}", Len(raw)))

\* parse_import_clause after `raw = clause.strip()`.  In the branch
\* `if "," in raw and "{" in raw` the part before the first comma is taken as
\* the default import and raw becomes the part after it.
clause_of_raw(raw) ==
    IF raw = "" THEN NoneVal
    ELSE IF startswith(raw, "*") THEN Some({"*"})
    ELSE IF Contains(raw, ",") /\ Contains(raw, "{")
         THEN clause_names(IF strip(split1(raw, ",")[1]) # "" THEN {"default"} ELSE {},
                           strip(split1(raw, ",")[2]))
    ELSE clause_names({}, raw)

parse_import_clause(clause) == clause_of_raw(strip(clause))

-----------------------------------------------------------------------------
(* strip_comments *)

\* re.sub(r"/\*[\s\S]*?\*/", "", text): each "/*" up to the first "*/" after it
RECURSIVE _strip_block_comments(_)
_strip_block_comments(text) ==
    LET Cut(i, j) ==
            IF i = 0 \/ j = 0 THEN text
            ELSE SubSeq(text, 1, i - 1) \o _strip_block_comments(From(text, j + 2))
        Open(i) == Cut(i, IF i = 0 THEN 0 ELSE IndexOf(text, "*/", i + 2))
    IN  Open(IndexOf(text, "/*", 1))

\* where `.*$` ends under re.MULTILINE: at the next line break, or at the end
EolFrom(s, i) ==
    LET Eol(j) == IF j = 0 THEN Len(s) + 1 ELSE j IN Eol(IndexOf(s, "\n", i))

\* where `^` matches under re.MULTILINE
AtLineStart(s, i) == i = 1 \/ Ch(s, i - 1) = "\n"

\* re.sub(r"(^|\s)//.*$", r"\1", text, flags=re.MULTILINE), scanning from i
\* (the next match starts at m: with `^` the whole match goes, with `\s` the
\* white space character, group 1, stays)
RECURSIVE LineCommentScan(_, _)
LineCommentScan(s, i) ==
    LET \* k: the length of group 1, the part of the match that stays
        Cut(m, k) == SubSeq(s, i, m - 1 + k) \o LineCommentScan(s, EolFrom(s, m + k + 2))
        Sub(m) ==
            IF m = 0 THEN From(s, i)
            ELSE Cut(m, IF StartsAt(s, m, "//") THEN 0 ELSE 1)
    IN  Sub(First(i, Len(s), [j \in i..Len(s) |->
                  \/ AtLineStart(s, j) /\ StartsAt(s, j, "//")
                  \/ IsSpace(Ch(s, j)) /\ StartsAt(s, j + 1, "//")]))

_strip_line_comments(text) == LineCommentScan(text, 1)

strip_comments(text) == _strip_line_comments(_strip_block_comments(text))

-----------------------------------------------------------------------------
(* The four declaration patterns.  Each XxxAt(s, i) is the regex engine's   *)
(* match attempt at position i (groups and the position after the match),   *)
(* each XxxMatches(s) is finditer over the whole text.                      *)

NoMatch ==
    [ok |-> FALSE, type |-> FALSE, clause |-> "", src |-> "",
     start |-> 0, at |-> 0, end |-> 0]

\* of the matches in ms (not empty), the one that starts first
Leftmost(ms) == CHOOSE m \in ms : \A o \in ms : m.start <= o.start

\* re.finditer: ms holds the match the engine finds at each start position
\* where it finds one; the matches reported from position i on, each search
\* resuming where the last match ended
RECURSIVE finditer(_, _)
finditer(ms, i) ==
    LET Go(m) == <<m>> \o finditer(ms, m.end)
        Scan(later) == IF later = {} THEN <<>> ELSE Go(Leftmost(later))
    IN  Scan({m \in ms : m.start >= i})

\* \b before a word character at position i
WordStart(s, i) == i = 1 \/ ~IsWord(Ch(s, i - 1))

\* the position after the run of white space that starts at position i
SkipWs(s, i) == i + WsRun(s, i)

\* ["'](?P<src>[^"']+)["'] at position g
QuotedAt(s, g) ==
    LET Close(r) ==
            IF IsQuote(Ch(s, g)) /\ r >= 1 /\ IsQuote(Ch(s, g + 1 + r))
            THEN [ok |-> TRUE, type |-> FALSE, clause |-> "",
                  src |-> SubSeq(s, g + 1, g + r), start |-> g, at |-> g,
                  end |-> g + r + 2]
            ELSE NoMatch
    IN  Close(NonQuoteRun(s, g + 1))

\* from\s+["'](?P<src>[^"']+)["'] at position f
FromAt(s, f) ==
    IF StartsAt(s, f, "from") /\ SkipWs(s, f + 4) > f + 4
    THEN QuotedAt(s, SkipWs(s, f + 4))
    ELSE NoMatch

\* \s+from\s+["'](?P<src>[^"']+)["'] at position e
FromTail(s, e) ==
    IF SkipWs(s, e) > e
    THEN [FromAt(s, SkipWs(s, e)) EXCEPT !.at = e]
    ELSE NoMatch

\* `\s+` greedy after "import", then `(type\s+)?` greedy: the places the clause
\* can start, in the order the backtracking engine tries them
RECURSIVE ClauseStarts(_, _, _)
ClauseStarts(s, p0, k) ==
    IF k < 1 THEN <<>>
    ELSE LET Typed(q, T) ==
                 [t \in 1..T |-> [type |-> TRUE, c |-> q + 4 + (T - t + 1)]]
                 \o <<[type |-> FALSE, c |-> q]>>
         IN  Typed(p0 + k, IF StartsAt(s, p0 + k, "type") THEN WsRun(s, p0 + k + 4) ELSE 0)
             \o ClauseStarts(s, p0, k - 1)

\* of the tails in ts (not empty), the one that starts first
Earliest(ts) == CHOOSE t \in ts : \A o \in ts : t.at <= o.at

\* the lazy clause [\s\S]*? from the start st.c, up to the first place where
\* the rest of the pattern matches
ClauseMatch(s, st) ==
    LET Fill(t) == [t EXCEPT !.type = st.type, !.clause = SubSeq(s, st.c, t.at - 1)]
        Pick(tails) == IF tails = {} THEN NoMatch ELSE Fill(Earliest(tails))
    IN  Pick({t \in {FromTail(s, e) : e \in {x \in st.c..Len(s) : IsSpace(Ch(s, x))}} :
                 t.ok})

\* the first clause start from which the pattern matches
FirstClause(s, starts) ==
    LET Pick(hits) ==
            IF hits = {} THEN NoMatch
            ELSE (CHOOSE h \in hits : \A o \in hits : h[1] <= o[1])[2]
    IN  Pick({h \in {<<n, ClauseMatch(s, starts[n])>> : n \in 1..Len(starts)} : h[2].ok})

\* IMPORT_FROM_RE at position i
ImportFromAt(s, i) ==
    IF WordStart(s, i) /\ StartsAt(s, i, "import")
    THEN [FirstClause(s, ClauseStarts(s, i + 6, WsRun(s, i + 6))) EXCEPT !.start = i]
    ELSE NoMatch

\* IMPORT_SIDE_EFFECT_RE at position i
ImportSideEffectAt(s, i) ==
    LET \* `\s*;?` after the closing quote
        Semi(z) == IF Ch(s, z) = ";" THEN z + 1 ELSE z
        End(q) ==
            IF q.ok THEN [q EXCEPT !.start = i, !.end = Semi(SkipWs(s, q.end))]
            ELSE NoMatch
    IN  IF WordStart(s, i) /\ StartsAt(s, i, "import") /\ SkipWs(s, i + 6) > i + 6
        THEN End(QuotedAt(s, SkipWs(s, i + 6)))
        ELSE NoMatch

\* \s*\}\s*from\s+["'](?P<src>[^"']+)["'] at position e
NamedTail(s, e) ==
    IF Ch(s, SkipWs(s, e)) = "}"
    THEN [FromAt(s, SkipWs(s, SkipWs(s, e) + 1)) EXCEPT !.at = e]
    ELSE NoMatch

\* the lazy group `names` from the start c
NamesMatch(s, c, typed) ==
    LET Fill(t) == [t EXCEPT !.type = typed, !.clause = SubSeq(s, c, t.at - 1)]
        Pick(tails) == IF tails = {} THEN NoMatch ELSE Fill(Earliest(tails))
    IN  Pick({t \in {NamedTail(s, e) :
                        e \in {x \in c..Len(s) : IsSpace(Ch(s, x)) \/ Ch(s, x) = "}"}} :
                 t.ok})

\* \{\s*(?P<names>[\s\S]*?)\s*\}\s*from ... at position b
BracedAt(s, b, typed) ==
    IF Ch(s, b) = "{" THEN NamesMatch(s, SkipWs(s, b + 1), typed) ELSE NoMatch

\* (?P<type>type\s+)?\{ ... at position q
TypeOptAt(s, q) ==
    IF StartsAt(s, q, "type") /\ SkipWs(s, q + 4) > q + 4 /\ Ch(s, SkipWs(s, q + 4)) = "{"
    THEN BracedAt(s, SkipWs(s, q + 4), TRUE)
    ELSE BracedAt(s, q, FALSE)

\* EXPORT_NAMED_FROM_RE at position i (clause holds the group `names`)
ExportNamedAt(s, i) ==
    IF WordStart(s, i) /\ StartsAt(s, i, "export") /\ SkipWs(s, i + 6) > i + 6
    THEN [TypeOptAt(s, SkipWs(s, i + 6)) EXCEPT !.start = i]
    ELSE NoMatch

\* EXPORT_STAR_FROM_RE at position i
ExportStarAt(s, i) ==
    IF /\ WordStart(s, i) /\ StartsAt(s, i, "export") /\ SkipWs(s, i + 6) > i + 6
       /\ Ch(s, SkipWs(s, i + 6)) = "*"
    THEN [FromTail(s, SkipWs(s, i + 6) + 1) EXCEPT !.start = i]
    ELSE NoMatch

ImportFromMatches(s) ==
    finditer({m \in {ImportFromAt(s, j) : j \in 1..Len(s)} : m.ok}, 1)

ImportSideEffectMatches(s) ==
    finditer({m \in {ImportSideEffectAt(s, j) : j \in 1..Len(s)} : m.ok}, 1)

ExportNamedMatches(s) ==
    finditer({m \in {ExportNamedAt(s, j) : j \in 1..Len(s)} : m.ok}, 1)

ExportStarMatches(s) ==
    finditer({m \in {ExportStarAt(s, j) : j \in 1..Len(s)} : m.ok}, 1)

-----------------------------------------------------------------------------
(* parse_imports and parse_export_map, from the text read_text returned *)

ImportEdge(src, imported, type_only) ==
    [source |-> src, imported |-> imported, type_only |-> type_only]

\* `uniq[(e.source, e.imported, e.type_only)] = e`: the first of equal edges stays
RECURSIVE Dedup(_)
Dedup(edges) ==
    IF Len(edges) = 0 THEN <<>>
    ELSE LET Add(front, last) ==
                 IF last \in Range(front) THEN front ELSE Append(front, last)
         IN  Add(Dedup(SubSeq(edges, 1, Len(edges) - 1)), edges[Len(edges)])

\* the loop over IMPORT_FROM_RE.finditer(text)
from_edges(fm) ==
    [n \in 1..Len(fm) |->
        ImportEdge(fm[n].src, parse_import_clause(fm[n].clause), fm[n].type)]

\* a faulty loop, to compare with: side-effect imports are left out
no_side_effect_edges(sm) == <<>>

\* the loop over IMPORT_SIDE_EFFECT_RE.finditer(text)
side_effect_edges(sm) ==
    [n \in 1..Len(sm) |-> ImportEdge(sm[n].src, NoneVal, FALSE)]

\* parse_imports after `text = strip_comments(read_text(path))`
edges_of_text(text) ==
    Dedup(from_edges(ImportFromMatches(text))
          \o side_effect_edges(ImportSideEffectMatches(text)))

\* the body of parse_imports: the tuple of edges of a file with this text
import_edges(raw_text) == edges_of_text(strip_comments(raw_text))

\* one token of an `export { ... } from` list: the exported name, "" if none
export_token_name(part) ==
    LET Name(token) ==
            IF startswith(token, "default as ")
            THEN strip(From(token, Len("default as ") + 1))
            ELSE IF Contains(token, " as ")
                 THEN strip(split1(token, " as ")[2])
            ELSE token
        Tok(p) == IF p = "" THEN "" ELSE Name(sub_type_prefix(p))
    IN  Tok(strip(part))

\* the names one `export { names } from` declaration exports
exported_names(names) ==
    LET Each(parts) == {export_token_name(parts[i]) : i \in DOMAIN parts} \ {""}
    IN  Each(split(names, ","))

ExportMap(by_name, stars) == [by_name |-> by_name, stars |-> stars]

\* the loop over EXPORT_NAMED_FROM_RE.finditer(text): the pairs <<name, src>>
\* it records, type-only declarations skipped
named_pairs(nm) ==
    UNION {{<<k, nm[n].src>> : k \in exported_names(nm[n].clause)} :
              n \in {r \in 1..Len(nm) : ~nm[r].type}}

\* by_name: every exported name -> the sources recorded for it
by_name_of(pairs) ==
    [k \in {pr[1] : pr \in pairs} |-> {pr[2] : pr \in {q \in pairs : q[1] = k}}]

\* the loop over EXPORT_STAR_FROM_RE.finditer(text)
star_sources(sm) == {sm[n].src : n \in 1..Len(sm)}

\* parse_export_map after `text = strip_comments(read_text(path))`
exports_of_text(text) ==
    ExportMap(by_name_of(named_pairs(ExportNamedMatches(text))),
              star_sources(ExportStarMatches(text)))

\* the body of parse_export_map: the ExportMap of a file with this text
export_map(raw_text) == exports_of_text(strip_comments(raw_text))

-----------------------------------------------------------------------------
(* pathlib.  A Path is the string str() gives for it; every path of the     *)
(* model is absolute.  Directories are the proper prefixes of the files,    *)
(* and there are no symbolic links.  The OS is Linux: a file name has at    *)
(* most 255 bytes and a path at most 4095, and a root of two slashes names  *)
(* the root.                                                                *)

NoPath == ""   \* stands for None where a Path is optional (no Path has the string "")

\* the parts of a path string: pathlib drops empty and "." components
PathParts(str) ==
    LET Named(parts) == Filter(parts, [i \in 1..Len(parts) |-> parts[i] \notin {"", "."}])
    IN  Named(split(str, "/"))

\* the root of an absolute path string: pathlib keeps exactly two leading
\* slashes and folds three or more into one
Anchor(str) ==
    IF startswith(str, "//") /\ ~startswith(str, "///") THEN "//" ELSE "/"

PathStr(parts) == "/" \o Join(parts, "/")

\* Path(str), for an absolute str
Path(str) == Anchor(str) \o Join(PathParts(str), "/")

DropLast(parts) == IF Len(parts) = 0 THEN parts ELSE SubSeq(parts, 1, Len(parts) - 1)

\* p.parent
parent(p) == Anchor(p) \o Join(DropLast(PathParts(p)), "/")

\* p / other: an absolute right operand replaces the left one
joinpath(p, other) ==
    IF startswith(other, "/") THEN Path(other)
    ELSE Anchor(p) \o Join(PathParts(p) \o PathParts(other), "/")

\* ".." components folded away, as os.path.realpath does without symlinks
RECURSIVE Collapse(_)
Collapse(parts) ==
    IF Len(parts) = 0 THEN <<>>
    ELSE LET Step(front, last) ==
                 IF last = ".." THEN DropLast(front) ELSE Append(front, last)
         IN  Step(Collapse(DropLast(parts)), parts[Len(parts)])

\* p.resolve(): the result has one leading slash
resolve(p) == PathStr(Collapse(PathParts(p)))

\* d names a directory: it is the root ("") or some file lies below it
IsDir(d) == d = "" \/ \E f \in DOMAIN fs : startswith(f, d \o "/")

\* the directory above d (the root is its own parent)
UpDir(d) == IF d = "" THEN "" ELSE SubSeq(d, 1, LastIndexOf(d, "/", Len(d)) - 1)

\* what os.stat raises for a name of more than 255 bytes looked up in a
\* directory, and for a path of more than 4095 bytes
ENAMETOOLONG == "OSError: [Errno 36] File name too long"

NameTooLong(name) == Len(name) > 127 /\ Bytes(name) > 255

PathTooLong(p) == Len(p) > 2047 /\ Bytes(p) > 4095

\* the walk the OS makes along the parts: every step starts in a directory
\* (ENOENT or ENOTDIR if it is none), where a name of more than 255 bytes is
\* refused, and ".." leads to the directory above.  The result is
\* <<TRUE, the place reached>>, <<FALSE, "">> or <<FALSE, ENAMETOOLONG>>.
RECURSIVE Walk(_)
Walk(parts) ==
    IF Len(parts) = 0 THEN <<TRUE, "">>
    ELSE LET Step(w, last) ==
                 IF ~w[1] THEN w
                 ELSE IF ~IsDir(w[2]) THEN <<FALSE, "">>
                 ELSE IF NameTooLong(last) THEN <<FALSE, ENAMETOOLONG>>
                 ELSE IF last = ".." THEN <<TRUE, UpDir(w[2])>>
                 ELSE <<TRUE, w[2] \o "/" \o last>>
         IN  Step(Walk(DropLast(parts)), parts[Len(parts)])

\* os.stat(p) raises an OSError that Path.exists() does not take for "no"
\* (it does so for ENOENT, ENOTDIR, EBADF and ELOOP only)
stat_raises(p) ==
    \/ PathTooLong(p)
    \/ Len(p) > 127 /\ Walk(PathParts(p))[2] = ENAMETOOLONG

\* the file the OS finds at the Path p: its canonical path, NoPath if there is
\* none.  A short path without a ".." component is canonical but for its root.
Lookup(p) ==
    LET At(w) == IF w[1] /\ w[2] \in DOMAIN fs THEN w[2] ELSE NoPath
        Key(q) == IF q \in DOMAIN fs THEN q ELSE NoPath
    IN  IF PathTooLong(p) THEN NoPath
        ELSE IF Contains(p, "/..") \/ Len(p) > 127 THEN At(Walk(PathParts(p)))
        ELSE IF startswith(p, "//") THEN Key(From(p, 2))
        ELSE Key(p)

\* p.exists() and p.is_file(), where stat does not raise
is_file(p) == Lookup(p) # NoPath

\* the newline translation of a read in text mode (newline=None): "\r\n" and
\* a lone "\r" are read as "\n"
universal_newlines(text) ==
    LET replace(t, old, new) == Join(split(t, old), new)
    IN  replace(replace(text, "\r\n", "\n"), "\r", "\n")

\* a faulty read, to compare with: the bytes that fail to decode are replaced
\* and the rest of the text is returned
file_text_lenient(p) ==
    LET Read(f) == IF f # NoPath THEN universal_newlines(fs[f]) ELSE ""
    IN  Read(Lookup(p))

\* p.read_text(encoding="utf-8") inside `try`: "" when the read raises
file_text(p) ==
    LET Read(f) ==
            IF f # NoPath /\ f \notin unreadable THEN universal_newlines(fs[f])
            ELSE ""
    IN  Read(Lookup(p))

-----------------------------------------------------------------------------
(* resolve_import *)

exts == <<".ts", ".tsx", ".js", ".jsx">>

\* the candidates in the order the code probes them
Candidates(base) ==
    <<base>>
    \o [i \in 1..Len(exts) |-> Path(base \o exts[i])]
    \o [i \in 1..Len(exts) |-> joinpath(base, "index" \o exts[i])]

\* a faulty prefix test, to compare with: every specifier counts as local
every_spec_local(spec) == TRUE

IsLocalSpec(spec) ==
    startswith(spec, "./") \/ startswith(spec, "../") \/ startswith(spec, "@/")

ImportBase(root, current_file, spec) ==
    IF startswith(spec, "@/")
    THEN joinpath(joinpath(root, "src"), From(spec, 3))
    ELSE resolve(joinpath(parent(current_file), spec))

\* the loop over the candidates: the first that is a file, None if none is;
\* the OSError of a candidate that comes before every file
first_file(cands) ==
    LET Hit(hits) ==
            IF hits = {} THEN NoPath
            ELSE IF stat_raises(cands[Min(hits)]) THEN ENAMETOOLONG
            ELSE cands[Min(hits)]
    IN  Hit({i \in 1..Len(cands) : stat_raises(cands[i]) \/ is_file(cands[i])})

resolve_import(root, current_file, spec) ==
    IF spec = "" THEN NoPath
    ELSE IF ~IsLocalSpec(spec) THEN NoPath
    ELSE first_file(Candidates(ImportBase(root, current_file, spec)))

-----------------------------------------------------------------------------
(* functools.lru_cache: the entries in order of use, the least recently     *)
(* used first.                                                              *)

maxsize == 4096

CacheHit(c, k) == \E i \in DOMAIN c : c[i].key = k

CacheIdx(c, k) == CHOOSE i \in DOMAIN c : c[i].key = k

CacheVal(c, k) == c[CacheIdx(c, k)].val

\* a hit moves the entry to the most recently used end
CacheTouch(c, k) ==
    LET Move(i) == SubSeq(c, 1, i - 1) \o SubSeq(c, i + 1, Len(c)) \o <<c[i]>>
    IN  Move(CacheIdx(c, k))

\* a miss stores the result; a full cache drops its least recently used entry
CachePut(c, k, v) ==
    LET Evict(c1) == IF Len(c1) > maxsize THEN Tail(c1) ELSE c1
    IN  Evict(Append(c, [key |-> k, val |-> v]))

\* read_text(p) with the cache ct: the value returned and the cache afterwards
read_text(ct, p) ==
    LET Miss(text) == [val |-> text, ct |-> CachePut(ct, p, text)]
    IN  IF CacheHit(ct, p)
        THEN [val |-> CacheVal(ct, p), ct |-> CacheTouch(ct, p)]
        ELSE Miss(file_text(p))

\* a faulty parse_imports, to compare with: the cached value is a generator,
\* which a later call finds exhausted
parse_imports_exhausted(ci, ct, p) ==
    IF CacheHit(ci, p)
    THEN [val |-> <<>>, ci |-> CacheTouch(ci, p), ct |-> ct]
    ELSE LET Store(edges, ct1) ==
                 [val |-> edges, ci |-> CachePut(ci, p, edges), ct |-> ct1]
         IN  Store(import_edges(read_text(ct, p).val), read_text(ct, p).ct)

\* parse_imports(p) with the caches ci and ct
parse_imports(ci, ct, p) ==
    IF CacheHit(ci, p)
    THEN [val |-> CacheVal(ci, p), ci |-> CacheTouch(ci, p), ct |-> ct]
    ELSE LET Store(edges, ct1) ==
                 [val |-> edges, ci |-> CachePut(ci, p, edges), ct |-> ct1]
         IN  Store(import_edges(read_text(ct, p).val), read_text(ct, p).ct)

\* a faulty parse_export_map, to compare with: the cached map is consumed by
\* its first reader, and a later call finds it empty
parse_export_map_consumed(ce, ct, p) ==
    IF CacheHit(ce, p)
    THEN [val |-> ExportMap(<<>>, {}), ce |-> CacheTouch(ce, p), ct |-> ct]
    ELSE LET Store(em, ct1) ==
                 [val |-> em, ce |-> CachePut(ce, p, em), ct |-> ct1]
         IN  Store(export_map(read_text(ct, p).val), read_text(ct, p).ct)

\* parse_export_map(p) with the caches ce and ct
parse_export_map(ce, ct, p) ==
    IF CacheHit(ce, p)
    THEN [val |-> CacheVal(ce, p), ce |-> CacheTouch(ce, p), ct |-> ct]
    ELSE LET Store(em, ct1) ==
                 [val |-> em, ce |-> CachePut(ce, p, em), ct |-> ct1]
         IN  Store(export_map(read_text(ct, p).val), read_text(ct, p).ct)

-----------------------------------------------------------------------------
(* sorted() on strings: by code point, a proper prefix first *)

\* the printable ASCII characters in code point order (all but the backquote)
StrLess(a, b) ==
    LET Cmp(d) ==
            IF d > Len(a) THEN Len(a) < Len(b)
            ELSE IF d > Len(b) THEN FALSE
            ELSE Ord(Ch(a, d)) < Ord(Ch(b, d))
    IN  Cmp(First(1, Len(a) + 1,
                  [i \in 1..(Len(a) + 1) |-> i > Len(a) \/ i > Len(b) \/ Ch(a, i) # Ch(b, i)]))

RECURSIVE sorted(_)
sorted(S) ==
    IF S = {} THEN <<>>
    ELSE LET Rest(m) == <<m>> \o sorted(S \ {m})
         IN  Rest(CHOOSE x \in S : \A y \in S \ {x} : StrLess(x, y))

-----------------------------------------------------------------------------
(* dependency_closure *)

Root == "/r"

\* the mark that ends a sequence of queue items when an OSError ended the
\* loop that appended them
Raise == [path |-> ENAMETOOLONG, requested |-> NoneVal]

Raises(items) == items # <<>> /\ items[Len(items)] = Raise

\* the items appended to the queue, without the mark
Appended(items) == IF Raises(items) THEN DropLast(items) ELSE items

\* lines 223-225: the queue after seeding, or the queue when the test of an
\* entry raised, with the mark
RECURSIVE SeedQueue(_)
SeedQueue(eps) ==
    IF Len(eps) = 0 THEN <<>>
    ELSE LET Seed(front, ep) ==
                 IF Raises(front) THEN front
                 ELSE IF stat_raises(ep) THEN Append(front, Raise)
                 ELSE IF is_file(ep)
                 THEN Append(front, [path |-> resolve(ep), requested |-> NoneVal])
                 ELSE front
         IN  Seed(SeedQueue(DropLast(eps)), eps[Len(eps)])

\* a faulty barrel step, to compare with: every re-export is followed
\* whatever names were requested
follow_every_spec(em, requested) ==
    em.stars \cup UNION {em.by_name[n] : n \in DOMAIN em.by_name}

\* a faulty barrel step, to compare with: when none of the requested names is
\* found and there is no star, every named re-export is followed
follow_all_on_miss(em, requested) ==
    IF "*" \in requested.names \/ "default" \in requested.names
    THEN em.stars \cup UNION {em.by_name[n] : n \in DOMAIN em.by_name}
    ELSE LET Named(specs) ==
                 IF specs # {} THEN specs
                 ELSE IF em.stars # {} THEN em.stars
                 ELSE UNION {em.by_name[n] : n \in DOMAIN em.by_name}
         IN  Named(UNION {em.by_name[n] : n \in requested.names \cap DOMAIN em.by_name})

\* lines 239-252: the specifiers the barrel step follows
follow_specs(em, requested) ==
    IF "*" \in requested.names \/ "default" \in requested.names
    THEN em.stars \cup UNION {em.by_name[n] : n \in DOMAIN em.by_name}
    ELSE LET Named(specs) == IF specs = {} /\ em.stars # {} THEN em.stars ELSE specs
         IN  Named(UNION {em.by_name[n] : n \in requested.names \cap DOMAIN em.by_name})

\* `resolved = resolve_import(root, path, spec)`, `if resolved:
\* queue.append((resolved, requested))` for each target in turn, up to the
\* first resolve_import that raises
RECURSIVE push_resolved(_, _, _)
push_resolved(root, path, targets) ==
    IF Len(targets) = 0 THEN <<>>
    ELSE LET Add(front, requested, resolved) ==
                 IF Raises(front) THEN front
                 ELSE IF resolved = ENAMETOOLONG THEN Append(front, Raise)
                 ELSE IF resolved # NoPath
                 THEN Append(front, [path |-> resolved, requested |-> requested])
                 ELSE front
         IN  Add(push_resolved(root, path, SubSeq(targets, 1, Len(targets) - 1)),
                 targets[Len(targets)].requested,
                 resolve_import(root, path, targets[Len(targets)].spec))

\* lines 254-257: the loop over sorted(follow_specs)
barrel_targets(specs) ==
    [i \in 1..Len(specs) |-> [spec |-> specs[i], requested |-> NoneVal]]

\* lines 254-257: what the barrel step appends to the queue
BarrelPushes(root, path, em, requested) ==
    push_resolved(root, path, barrel_targets(sorted(follow_specs(em, requested))))

\* a faulty filter, to compare with: type-only edges are kept
every_edge(edges) == edges

\* lines 259-265: the edges the loop does not skip
runtime_edges(edges) == Filter(edges, [i \in 1..Len(edges) |-> ~edges[i].type_only])

import_targets(edges) ==
    [i \in 1..Len(edges) |-> [spec |-> edges[i].source, requested |-> edges[i].imported]]

\* lines 259-265: what the own-imports step appends to the queue
ImportPushes(root, path, edges) ==
    push_resolved(root, path, import_targets(runtime_edges(edges)))

\* lines 236-257, `if requested:` with the export map at hand
BarrelOf(root, path, requested, pe) ==
    [items |-> BarrelPushes(root, path, pe.val, requested), ce |-> pe.ce, ct |-> pe.ct]

\* lines 236-257: the items the barrel step appends, and the caches after it
BarrelStep(root, path, requested, ce, ct) ==
    IF Truthy(requested)
    THEN BarrelOf(root, path, requested, parse_export_map(ce, ct, path))
    ELSE [items |-> <<>>, ce |-> ce, ct |-> ct]

\* lines 259-265 with the edges at hand
OwnOf(root, path, pi) ==
    [items |-> ImportPushes(root, path, pi.val), ci |-> pi.ci, ct |-> pi.ct]

\* lines 259-265: the items the own-imports step appends, and the caches after it
OwnStep(root, path, ci, ct) == OwnOf(root, path, parse_imports(ci, ct, path))

\* the own-imports step after a barrel step b
ThenOwn(b, o) ==
    [items |-> b.items \o o.items, ce |-> b.ce, ci |-> o.ci, ct |-> o.ct]

\* a faulty iteration, to compare with: a file whose barrel step queued
\* something does not get its own imports followed
BarrelElseOwn(root, path, ci, b) ==
    IF b.items # <<>>
    THEN [items |-> b.items, ce |-> b.ce, ci |-> ci, ct |-> b.ct]
    ELSE ThenOwn(b, OwnStep(root, path, ci, b.ct))

\* the own-imports step follows unless the barrel step raised
AfterBarrel(root, path, ci, b) ==
    IF Raises(b.items) THEN [items |-> b.items, ce |-> b.ce, ci |-> ci, ct |-> b.ct]
    ELSE ThenOwn(b, OwnStep(root, path, ci, b.ct))

\* lines 236-265: one iteration on the queue item <<path, requested>>
Iteration(root, item, ce, ci, ct) ==
    AfterBarrel(root, item.path, ci, BarrelStep(root, item.path, item.requested, ce, ct))

\* the call dependency_closure(Root, eps, mf), up to the while loop; an
\* OSError leaves the function ("raised") and the process ends with it
Call(eps, mf) ==
    /\ pc = "idle"
    /\ entry_points' = eps
    /\ max_files' = mf
    /\ visited' = {}
    /\ queue' = Appended(SeedQueue(eps))
    /\ pc' = IF Raises(SeedQueue(eps)) THEN "raised" ELSE "loop"
    /\ UNCHANGED <<disk, caches, results, pure>>

Top == queue[Len(queue)]

\* a faulty skip, to compare with: the visited file stays on the queue
LoopSkipKeep ==
    /\ pc = "loop" /\ queue # <<>>
    /\ Top.path \in visited
    /\ UNCHANGED vars

\* `if path in visited: continue`
LoopSkip ==
    /\ pc = "loop" /\ queue # <<>>
    /\ Top.path \in visited
    /\ queue' = DropLast(queue)
    /\ UNCHANGED <<disk, caches, pc, entry_points, max_files, visited, results, pure>>

\* `if len(visited) > max_files: break`, and the return after the loop
LoopBreak ==
    /\ pc = "loop" /\ queue # <<>>
    /\ Top.path \notin visited
    /\ Cardinality(visited \cup {Top.path}) > max_files
    /\ visited' = visited \cup {Top.path}
    /\ queue' = DropLast(queue)
    /\ results' = Append(results, visited')
    /\ pc' = "idle"
    /\ UNCHANGED <<disk, caches, entry_points, max_files, pure>>

\* a faulty iteration, to compare with: the cap is not tested before the
\* barrel step and the own-imports step
LoopExpandUncapped ==
    /\ pc = "loop" /\ queue # <<>>
    /\ Top.path \notin visited
    /\ visited' = visited \cup {Top.path}
    /\ \E it \in {Iteration(Root, Top, cache_exports, cache_imports, cache_text)} :
           /\ queue' = DropLast(queue) \o Appended(it.items)
           /\ cache_exports' = it.ce
           /\ cache_imports' = it.ci
           /\ cache_text' = it.ct
           /\ pc' = IF Raises(it.items) THEN "raised" ELSE "loop"
    /\ UNCHANGED <<disk, entry_points, max_files, results, pure>>

\* one full iteration: the barrel step and the own-imports step, or the
\* part of them before an OSError
LoopExpand ==
    /\ pc = "loop" /\ queue # <<>>
    /\ Top.path \notin visited
    /\ Cardinality(visited \cup {Top.path}) <= max_files
    /\ visited' = visited \cup {Top.path}
    /\ \E it \in {Iteration(Root, Top, cache_exports, cache_imports, cache_text)} :
           /\ queue' = DropLast(queue) \o Appended(it.items)
           /\ cache_exports' = it.ce
           /\ cache_imports' = it.ci
           /\ cache_text' = it.ct
           /\ pc' = IF Raises(it.items) THEN "raised" ELSE "loop"
    /\ UNCHANGED <<disk, entry_points, max_files, results, pure>>

\* the queue is empty: `return visited`
Return ==
    /\ pc = "loop" /\ queue = <<>>
    /\ results' = Append(results, visited)
    /\ pc' = "idle"
    /\ UNCHANGED <<disk, caches, entry_points, max_files, visited, queue, pure>>

-----------------------------------------------------------------------------
(* Specification of the scanner: a source tree is chosen, then              *)
(* dependency_closure is called on it, at most MaxCalls times with the same *)
(* arguments; the lru_caches live as long as the process.                   *)

MaxCalls == 2     \* calls of dependency_closure in one process
MaxCap == 5       \* max_files is drawn from 0..MaxCap
MaxEntries == 2   \* entry files in one call

E == "/r/src/e.ts"
B == "/r/src/b/index.ts"
X == "/r/src/b/x.ts"
Y == "/r/src/b/y.ts"
Z == "/r/src/b/z.ts"
R == "/r/src/react.ts"
Missing == "/r/src/missing.ts"

TextsE == {
    "import { Foo } from \"./b\";\n",
    "import * as NS from \"@/b\";\n",
    "import { Foo, Bar } from \"./b\";\n",
    "import { Foo } from \"./b\";\nimport \"./b\";\n",
    "import type { T } from \"./b/y\";\nimport { Foo } from \"./b\";\n",
    "import React from \"react\";\nimport { Bar } from \"@/b\";\n",
    "// import \"./b/z\";\nimport Def from \"./b\";\n" }

TextsB == {
    "export { Foo } from \"./x\";\nexport { Bar } from \"./y\";\n",
    "export * from \"./z\";\n",
    "export { Foo } from \"./x\";\nexport * from \"./z\";\n",
    "import { E } from \"../e\";\n",
    "export type { T } from \"./y\";\nexport { Baz as Foo } from \"./x\";\nimport \"./z\";\n" }

TextsX == {
    "export const Foo = 1;\n",
    "import \"./y\";\n",
    "import { Foo } from \"./index\";\n" }

TextY == "export const Bar = 1;\n"

Trees ==
    {(E :> e @@ B :> b @@ X :> x @@ Y :> TextY @@ Z :> "" @@ R :> "") :
        e \in TextsE, b \in TextsB, x \in TextsX}

EntryLists ==
    {l \in UNION {[1..n -> {E, B, Missing}] : n \in 1..MaxEntries} :
        \A i, j \in DOMAIN l : i # j => l[i] # l[j]}

\* no call of dependency_closure made or in progress, nothing cached
NoCall ==
    /\ cache_text = <<>> /\ cache_imports = <<>> /\ cache_exports = <<>>
    /\ pc = "idle" /\ entry_points = <<>> /\ max_files = 0
    /\ visited = {} /\ queue = <<>> /\ results = <<>>

Init ==
    /\ fs \in Trees
    /\ unreadable = {}
    /\ NoCall
    /\ fn = "dependency_closure" /\ inp = <<>> /\ out = Pending

\* the first call draws its arguments, a later call repeats them
CallClosure ==
    \E eps \in EntryLists, mf \in 0..MaxCap :
        /\ Len(results) < MaxCalls
        /\ results # <<>> => eps = entry_points /\ mf = max_files
        /\ Call(eps, mf)

Next == CallClosure \/ LoopSkip \/ LoopBreak \/ LoopExpand \/ Return

Spec == Init /\ [][Next]_vars

\* the guard of LoopExpand, the states in which it is enabled
ExpandEnabled ==
    /\ pc = "loop" /\ queue # <<>>
    /\ Top.path \notin visited
    /\ Cardinality(visited \cup {Top.path}) <= max_files

\* the interpreter always runs the next statement of a call in progress:
\* weak fairness of each step of the loop, the one of LoopExpand written out
\* with its guard for ENABLED <<LoopExpand>>_vars
FairSpec ==
    /\ Spec
    /\ WF_vars(LoopSkip) /\ WF_vars(LoopBreak) /\ WF_vars(Return)
    /\ ([]<>(~ExpandEnabled) \/ []<><<LoopExpand>>_vars)

-----------------------------------------------------------------------------
(* Specification of resolve_import on its own: the file system holds any    *)
(* consistent choice of the nine paths the function probes for the base     *)
(* path /r/src/lib/x, and the specifier and the importing file are drawn    *)
(* from ResolveInputs; the importing file holds one side-effect import of  *)
(* the specifier. A second step applies the closure's own-imports step to   *)
(* the importing file.                                                      *)

P == "/r/src/lib/x"

\* a file name of n letters a, n <= 256
LongName(n) ==
    LET A16 == "aaaaaaaaaaaaaaaa"
        A64 == A16 \o A16 \o A16 \o A16
    IN  SubSeq(A64 \o A64 \o A64 \o A64, 1, n)

ProbeFiles == {P \o ext : ext \in Range(exts)}

ProbeIndexes == {P \o "/index" \o ext : ext \in Range(exts)}

\* a path is a file or a directory, never both
ResolveTrees ==
    {[f \in S |-> ""] :
        S \in {T \in SUBSET ({P} \cup ProbeFiles \cup ProbeIndexes) :
                  P \in T => T \cap ProbeIndexes = {}}}

\* base is the path the specifier names from current_file, NoPath when the
\* specifier is not a local one
ResolveInputs ==
    {[spec |-> "@/lib/x", current_file |-> "/r/src/a.ts", base |-> P],
     [spec |-> "./lib/x", current_file |-> "/r/src/a.ts", base |-> P],
     [spec |-> "./x", current_file |-> "/r/src/lib/p.ts", base |-> P],
     [spec |-> "../lib/x", current_file |-> "/r/src/b/index.ts", base |-> P],
     [spec |-> "./x/", current_file |-> "/r/src/lib/p.ts", base |-> P],
     [spec |-> "@///r/src/lib/x", current_file |-> "/r/src/a.ts", base |-> "/" \o P],
     [spec |-> "./" \o LongName(252), current_file |-> "/r/src/lib/p.ts",
      base |-> "/r/src/lib/" \o LongName(252)],
     [spec |-> "@/lib/" \o LongName(256), current_file |-> "/r/src/a.ts",
      base |-> "/r/src/lib/" \o LongName(256)]}
    \cup
    {[spec |-> s, current_file |-> f, base |-> NoPath] :
        s \in {"", "x", "lib/x", "react", "@lib/x", "/r/src/lib/x", "~/lib/x"},
        f \in {"/r/src/a.ts", "/r/src/lib/p.ts"}}

\* the text of a file whose one declaration is a side-effect import
ImportOf(spec) == "import \"" \o spec \o "\";\n"

InitResolve ==
    /\ inp \in ResolveInputs
    /\ \E t \in ResolveTrees : fs = (inp.current_file :> ImportOf(inp.spec)) @@ t
    /\ unreadable = {}
    /\ NoCall
    /\ fn \in {"resolve_import", "push_resolved"}
    /\ out = Pending

ApplyResolve ==
    /\ fn = "resolve_import"
    /\ out = Pending
    /\ out' = [val |-> resolve_import(Root, inp.current_file, inp.spec)]
    /\ UNCHANGED <<disk, caches, call, fn, inp>>

\* lines 259-265 on the importing file: parse_imports reads and parses it,
\* which fills the two caches, and the loop appends what its edges resolve to
ApplyPush ==
    /\ fn = "push_resolved"
    /\ out = Pending
    /\ \E own \in {OwnStep(Root, inp.current_file, cache_imports, cache_text)} :
           /\ out' = [val |-> own.items]
           /\ cache_imports' = own.ci
           /\ cache_text' = own.ct
    /\ UNCHANGED <<disk, cache_exports, call, fn, inp>>

NextResolve == ApplyResolve \/ ApplyPush

SpecResolve == InitResolve /\ [][NextResolve]_vars

-----------------------------------------------------------------------------
(* Specification of parse_import_clause on its own: the clause is drawn     *)
(* from the import clauses a TS file can hold, built from a leading part    *)
(* and a braced list of at most MaxNames tokens.                            *)

MaxNames == 3

ClauseTokens == {"A", "B", "Bar as Baz", "type T", "default as X"}

ClauseLeads == {"", "Foo, ", "Foo,", ", "}

TokenLists == UNION {[1..n -> ClauseTokens] : n \in 0..MaxNames}

Braced(l) == IF Len(l) = 0 THEN "{}" ELSE "{ " \o Join(l, ", ") \o " }"

ClauseInputs ==
    {[lead |-> ld, list |-> l, braced |-> TRUE, text |-> ld \o Braced(l)] :
        ld \in ClauseLeads, l \in TokenLists}
    \cup
    {[lead |-> t, list |-> <<>>, braced |-> FALSE, text |-> t] :
        t \in {"", " ", "Foo", "* as React", "Foo, * as NS"}}

InitClause ==
    /\ fs = <<>>
    /\ unreadable = {}
    /\ NoCall
    /\ fn = "parse_import_clause"
    /\ inp \in ClauseInputs
    /\ out = Pending

ApplyClause ==
    /\ fn = "parse_import_clause"
    /\ out = Pending
    /\ out' = [val |-> parse_import_clause(inp.text)]
    /\ UNCHANGED <<disk, caches, call, fn, inp>>

NextClause == ApplyClause

SpecClause == InitClause /\ [][NextClause]_vars

-----------------------------------------------------------------------------
(* Properties of dependency_closure, stated on the calls that returned.     *)

\* a call has returned and none is in progress
Returned == pc = "idle" /\ results # <<>>

\* call k stopped at the cap: the set it returned is larger than max_files
CapReached(k) == Cardinality(results[k]) > max_files

\* the import edges parse_imports reports for file f
EdgesOf(f) == Range(import_edges(universal_newlines(fs[f])))

\* the file a specifier written in f names, NoPath when it names none
TargetOf(f, spec) == resolve_import(Root, f, spec)

\* the import edges of f that are not type-only and name file g
RuntimeEdges(f, g) ==
    {e \in EdgesOf(f) : ~e.type_only /\ TargetOf(f, e.source) = g}

\* the specifiers of the value re-exports of f
ReExports(f) ==
    LET Specs(em) == em.stars \cup UNION {em.by_name[n] : n \in DOMAIN em.by_name}
    IN  Specs(export_map(universal_newlines(fs[f])))

\* no file of the tree imports g at runtime
NoImportOf(g) == \A f \in DOMAIN fs : RuntimeEdges(f, g) = {}

\* the barrel re-exports exactly Foo from ./x and Bar from ./y
BarrelFooBar ==
    export_map(fs[B]) = ExportMap("Foo" :> {"./x"} @@ "Bar" :> {"./y"}, {})

\* every runtime import of the barrel in the tree requests names, and E has one
BarrelRequests(names) ==
    /\ RuntimeEdges(E, B) # {}
    /\ \A f \in DOMAIN fs : \A e \in RuntimeEdges(f, B) : e.imported = Some(names)

\* C1 (selective barrel following): with a barrel that re-exports Foo from
\* ./x and Bar from ./y, and y imported by no file, the closure from an
\* importer that requests only Foo never holds y and, the cap not reached,
\* holds the barrel and x; the closure from an importer that requests the
\* wildcard holds both x and y.
C1_SelectiveBarrel ==
    (Returned /\ entry_points = <<E>> /\ BarrelFooBar /\ NoImportOf(Y)) =>
        \A k \in DOMAIN results :
            /\ BarrelRequests({"Foo"}) =>
                   /\ Y \notin results[k]
                   /\ ~CapReached(k) => {B, X} \subseteq results[k]
            /\ (~CapReached(k) /\ \E e \in RuntimeEdges(E, B) : "*" \in e.imported.names) =>
                   {X, Y} \subseteq results[k]

C1_Witness ==
    /\ Returned /\ entry_points = <<E>>
    /\ results[1] = {E, B, X}
    /\ BarrelFooBar /\ NoImportOf(Y) /\ BarrelRequests({"Foo"})

\* C2 (cap safety): for max_files >= 1 the returned set holds at most
\* max_files files.
C2_CapSafety ==
    \A k \in DOMAIN results :
        max_files >= 1 => Cardinality(results[k]) <= max_files

\* E and B import each other and nothing else, and re-export nothing
MutualImport ==
    /\ EdgesOf(E) # {} /\ \A e \in EdgesOf(E) : TargetOf(E, e.source) = B
    /\ EdgesOf(B) # {} /\ \A e \in EdgesOf(B) : TargetOf(B, e.source) = E
    /\ ReExports(E) = {} /\ ReExports(B) = {}

\* C3 (cycle termination): every call of dependency_closure returns, on
\* trees with import cycles too, and for two files that import each other
\* and nothing else the closure from one of them is exactly the two files.
C3_CycleTermination ==
    /\ [](Returned /\ entry_points = <<E>> /\ max_files >= 2 /\ MutualImport
              => \A k \in DOMAIN results : results[k] = {E, B})
    /\ (pc = "loop") ~> (pc = "idle")

C3_Witness ==
    /\ Returned /\ entry_points = <<E>> /\ max_files >= 2
    /\ results[1] = {E, B}
    /\ MutualImport

\* file f has a type-only import
HasTypeOnlyImport(f) == \E e \in EdgesOf(f) : e.type_only

\* an edge the closure may follow leads from f to g
Follows(f, g) ==
    \/ RuntimeEdges(f, g) # {}
    \/ \E s \in ReExports(f) : TargetOf(f, s) = g

\* C4 (type-only exclusion): a type-only import is never followed. With an
\* entry file that holds a type-only import, every file of the closure is an
\* entry or is reached from a file of the closure by a runtime import or a
\* value re-export, and, the cap not reached, every file a runtime import of
\* the entry names is in the closure.
C4_TypeOnlyExclusion ==
    (Returned /\ E \in Range(entry_points) /\ HasTypeOnlyImport(E)) =>
        \A k \in DOMAIN results :
            /\ \A g \in results[k] :
                   \/ g \in Range(entry_points)
                   \/ \E f \in results[k] : Follows(f, g)
            /\ ~CapReached(k) =>
                   \A g \in DOMAIN fs : RuntimeEdges(E, g) # {} => g \in results[k]

C4_Witness ==
    /\ Returned /\ entry_points = <<E>>
    /\ results[1] = {E, B, X}
    /\ \E e \in EdgesOf(E) : e.type_only /\ TargetOf(E, e.source) = Y

\* the barrel has no named re-export and one wildcard re-export, from ./z
StarOnlyBarrel == export_map(fs[B]) = ExportMap(<<>>, {"./z"})

\* the request names bindings, neither the wildcard nor the default
NamedRequest(r) ==
    /\ ~r.is_none /\ r.names # {}
    /\ "*" \notin r.names /\ "default" \notin r.names

\* C5 (wildcard fallback): with a barrel whose only re-export is
\* export * from ./z, the closure of a call that did not reach the cap and
\* holds a file importing named bindings from the barrel holds z.
C5_WildcardFallback ==
    (Returned /\ StarOnlyBarrel) =>
        \A k \in DOMAIN results :
            (/\ ~CapReached(k)
             /\ \E f \in results[k] :
                    \E e \in RuntimeEdges(f, B) : NamedRequest(e.imported))
                => Z \in results[k]

\* C6 (idempotence): calls with the same arguments on an unchanged tree
\* return equal sets, the caches empty at the first call and filled at the
\* later ones.
C6_Idempotence == \A i, j \in DOMAIN results : results[i] = results[j]

C6_Witness ==
    /\ Len(results) = 2
    /\ Cardinality(results[2]) >= 3
    /\ Len(cache_imports) >= 3 /\ Len(cache_exports) >= 1

-----------------------------------------------------------------------------
(* Properties of resolve_import.                                            *)

\* the order in which a base path is probed
ProbeOrder(base) ==
    <<base, base \o ".ts", base \o ".tsx", base \o ".js", base \o ".jsx",
      base \o "/index.ts", base \o "/index.tsx", base \o "/index.js",
      base \o "/index.jsx">>

\* the path names a file of the tree (a root of two slashes is the root)
OnDisk(q) == (IF startswith(q, "//") THEN From(q, 2) ELSE q) \in DOMAIN fs

\* the first path of the sequence that is a file, NoPath when none is
FirstExisting(paths) ==
    IF \E i \in DOMAIN paths : OnDisk(paths[i])
    THEN paths[Min({i \in DOMAIN paths : OnDisk(paths[i])})]
    ELSE NoPath

\* C7 (resolution order): for a local specifier that names base path P the
\* result is the first existing regular file among P, P.ts, P.tsx, P.js,
\* P.jsx, P/index.ts, P/index.tsx, P/index.js, P/index.jsx, and unresolved
\* (not an error) when none exists.
C7_ResolutionOrder ==
    (fn = "resolve_import" /\ out # Pending /\ inp.base # NoPath) =>
        out.val = FirstExisting(ProbeOrder(inp.base))

\* a specifier that starts with @/, ./ or ../
LocalPrefix(spec) ==
    \E pre \in {"@/", "./", "../"} :
        Len(spec) >= Len(pre) /\ SubSeq(spec, 1, Len(pre)) = pre

\* C8 (bare specifiers are never local): for a specifier that starts with
\* none of @/, ./ and ../, the empty one included,
\* resolve_import is unresolved whatever files exist, and the closure queues
\* no file for an import of it and raises nothing.
C8_BareNeverLocal ==
    (out # Pending /\ ~LocalPrefix(inp.spec)) =>
        /\ fn = "resolve_import" => out.val = NoPath
        /\ fn = "push_resolved" => out.val = <<>>

C8_Witness ==
    /\ fn = "push_resolved" /\ out # Pending
    /\ inp.spec = "x" /\ inp.current_file = "/r/src/lib/p.ts"
    /\ P \o ".ts" \in DOMAIN fs
    /\ out.val = <<>>

-----------------------------------------------------------------------------
(* Properties of parse_import_clause.                                       *)

\* the clause is a braced list of one or more plain names and nothing else
PlainBracedList ==
    /\ inp.braced /\ inp.lead = ""
    /\ inp.list # <<>>
    /\ Range(inp.list) \subseteq {"A", "B"}

\* C9 (braced list parsing): a braced list of k >= 1 plain names gives
\* exactly the set of those names, without default.
C9_BracedList ==
    (fn = "parse_import_clause" /\ out # Pending /\ PlainBracedList) =>
        out.val = Some(Range(inp.list))

\* C10 (alias inversion): a renamed binding Y as Z gives the source name Y
\* and never the alias Z, and a leading default identifier gives default;
\* Foo, { Bar as Baz } gives {default, Bar}, Foo gives {default},
\* * as React gives {*} and { default as X } gives {X}.
C10_AliasInversion ==
    (fn = "parse_import_clause" /\ out # Pending) =>
        /\ (inp.braced /\ \E i \in DOMAIN inp.list : inp.list[i] = "Bar as Baz") =>
               /\ ~out.val.is_none
               /\ "Bar" \in out.val.names /\ "Baz" \notin out.val.names
        /\ (inp.braced /\ inp.lead = "Foo, ") =>
               ~out.val.is_none /\ "default" \in out.val.names
        /\ inp.text = "Foo, { Bar as Baz }" => out.val = Some({"default", "Bar"})
        /\ inp.text = "Foo" => out.val = Some({"default"})
        /\ inp.text = "* as React" => out.val = Some({"*"})
        /\ inp.text = "{ default as X }" => out.val = Some({"X"})

-----------------------------------------------------------------------------
(* Specification of parse_imports and parse_export_map on one file F: its   *)
(* text is an import declaration in or out of a comment, or a list of at    *)
(* most MaxDecls export declarations, one per line.                         *)

MaxDecls == 2

F == "/r/src/f.ts"

\* import declarations, each with the edge it stands for
ImportDecls ==
    {[text |-> "import \"./a\";", edge |-> ImportEdge("./a", NoneVal, FALSE)],
     [text |-> "import { A } from \"./a\";",
      edge |-> ImportEdge("./a", Some({"A"}), FALSE)],
     [text |-> "import type { T } from \"./a\";",
      edge |-> ImportEdge("./a", Some({"T"}), TRUE)]}

\* the places a declaration can stand in: before and after are the text
\* around it, commented says whether the place is inside a comment
ImportPlaces ==
    {[before |-> "", after |-> "\n", commented |-> FALSE],
     [before |-> "const x = 1;\n", after |-> "\n", commented |-> FALSE],
     [before |-> "/* ", after |-> " */\n", commented |-> TRUE],
     [before |-> "/*\n", after |-> "\n*/\n", commented |-> TRUE],
     [before |-> "// ", after |-> "\n", commented |-> TRUE],
     [before |-> "x = 1; // ", after |-> "\n", commented |-> TRUE],
     [before |-> "x = 1;// ", after |-> "\n", commented |-> TRUE]}

\* export declarations: names are the publicly visible names a value
\* re-export gives, star says whether it is a wildcard re-export
ExportDecls ==
    {[text |-> "export { Y as Z } from \"./a\";", names |-> {"Z"},
      src |-> "./a", star |-> FALSE],
     [text |-> "export { default as X, Q } from \"./a\";", names |-> {"X", "Q"},
      src |-> "./a", star |-> FALSE],
     [text |-> "export { Q } from \"./b\";", names |-> {"Q"},
      src |-> "./b", star |-> FALSE],
     [text |-> "export type { T } from \"./y\";", names |-> {},
      src |-> "./y", star |-> FALSE],
     [text |-> "export * from \"./z\";", names |-> {},
      src |-> "./z", star |-> TRUE],
     [text |-> "export { A };", names |-> {},
      src |-> "", star |-> FALSE]}

DeclLists == UNION {[1..n -> ExportDecls] : n \in 1..MaxDecls}

DeclTexts(l) == [i \in DOMAIN l |-> l[i].text]

ParseInputs ==
    {[kind |-> "import", decl |-> d, place |-> pl, decls |-> <<>>,
      text |-> pl.before \o d.text \o pl.after] :
        d \in ImportDecls, pl \in ImportPlaces}
    \cup
    {[kind |-> "exports", decl |-> <<>>, place |-> <<>>, decls |-> l,
      text |-> Join(DeclTexts(l), "\n") \o "\n"] : l \in DeclLists}

InitParse ==
    /\ inp \in ParseInputs
    /\ fs = (F :> inp.text)
    /\ unreadable = {}
    /\ NoCall
    /\ fn \in {"parse_imports", "parse_export_map"}
    /\ out = Pending

ApplyImports ==
    /\ fn = "parse_imports"
    /\ out = Pending
    /\ \E r \in {parse_imports(cache_imports, cache_text, F)} :
           /\ out' = [val |-> r.val]
           /\ cache_imports' = r.ci /\ cache_text' = r.ct
    /\ UNCHANGED <<disk, cache_exports, call, fn, inp>>

ApplyExports ==
    /\ fn = "parse_export_map"
    /\ out = Pending
    /\ \E r \in {parse_export_map(cache_exports, cache_text, F)} :
           /\ out' = [val |-> r.val]
           /\ cache_exports' = r.ce /\ cache_text' = r.ct
    /\ UNCHANGED <<disk, cache_imports, call, fn, inp>>

NextParse == ApplyImports \/ ApplyExports

SpecParse == InitParse /\ [][NextParse]_vars

\* the export map the declarations of the list stand for
DeclaredMap(l) ==
    LET decls == Range(l)
        names == UNION {d.names : d \in decls}
    IN  ExportMap([n \in names |-> {d.src : d \in {x \in decls : n \in x.names}}],
                  {d.src : d \in {x \in decls : x.star}})

\* C11 (export map content): by_name maps every publicly visible name of
\* every value re-export declaration to the specifiers that provide it,
\* stars holds the specifiers of the wildcard re-exports, and a type-only
\* re-export declaration adds nothing to either.
C11_ExportMapContent ==
    (fn = "parse_export_map" /\ out # Pending /\ inp.kind = "exports") =>
        out.val = DeclaredMap(inp.decls)

\* C13 (comment insensitivity): an import declaration inside a block
\* comment or after // on a line, wherever the // stands, gives no edge; the
\* same declaration outside a comment gives its edge.
C13_CommentInsensitivity ==
    (fn = "parse_imports" /\ out # Pending /\ inp.kind = "import") =>
        IF inp.place.commented
        THEN out.val = <<>>
        ELSE inp.decl.edge \in Range(out.val)

-----------------------------------------------------------------------------
(* Further properties of dependency_closure under Spec.                     *)

\* file f holds the declaration import "<spec>"; on a line of its own
HasBareImport(f, spec) ==
    LET Holds(d) == startswith(fs[f], d) \/ Contains(fs[f], "\n" \o d)
    IN  Holds("import \"" \o spec \o "\";")

\* the specifiers of the bare imports in the trees
BareSpecs == {"./b", "./y", "./z"}

\* C12 (side-effect imports are runtime edges): every declaration
\* import "<spec>" gives an edge with imported = None and type_only = False,
\* and the file it resolves to is in the closure of every call that holds
\* the importing file and did not reach the cap.
C12_SideEffectEdges ==
    Returned =>
        \A f \in DOMAIN fs : \A s \in BareSpecs :
            HasBareImport(f, s) =>
                /\ ImportEdge(s, NoneVal, FALSE) \in EdgesOf(f)
                /\ \A k \in DOMAIN results :
                       (f \in results[k] /\ ~CapReached(k) /\ TargetOf(f, s) # NoPath)
                           => TargetOf(f, s) \in results[k]

C12_Witness ==
    /\ Returned /\ entry_points = <<B>>
    /\ HasBareImport(B, "./z")
    /\ results[1] = {B, Z}

\* C16 (malformed caller input fails fast): a call of dependency_closure
\* with an entry path that does not exist ends in a failure and returns no
\* set.
C16_MalformedInputFails ==
    (\E i \in DOMAIN entry_points : entry_points[i] \notin DOMAIN fs) =>
        results = <<>>

-----------------------------------------------------------------------------
(* Specification of one call of dependency_closure from the entry e.ts on   *)
(* trees with files whose read fails, with an alias specifier that holds    *)
(* a .. segment, and with a chain of two barrels.                           *)

WalkTextsE == {
    "import \"./b/x\";\nimport \"./b\";\n",
    "import \"@/b/../b/x\";\nimport \"./b/x\";\n",
    "import { N } from \"./b\";\n" }

WalkTextsB == {
    "import \"./z\";\n",
    "export { N } from \"./y\";\n" }

WalkTrees ==
    {(E :> e @@ B :> b @@ X :> "import \"./z\";\n"
        @@ Y :> "export { N } from \"./x\";\n" @@ Z :> "") :
        e \in WalkTextsE, b \in WalkTextsB}

InitWalk ==
    /\ fs \in WalkTrees
    /\ unreadable \in SUBSET {B, X}
    /\ NoCall
    /\ fn = "dependency_closure" /\ inp = <<>> /\ out = Pending

CallWalk ==
    \E mf \in 0..MaxCap :
        /\ results = <<>>
        /\ Call(<<E>>, mf)

NextWalk == CallWalk \/ LoopSkip \/ LoopBreak \/ LoopExpand \/ Return

SpecWalk == InitWalk /\ [][NextWalk]_vars

\* the entries of the cache c whose key names a file that cannot be read
UnreadableEntries(c) == {i \in DOMAIN c : Lookup(c[i].key) \in unreadable}

\* C14: a file whose read fails has the text "", no import edge and an empty
\* export map in the caches; the call still returns, keeps that file in the
\* set when a readable file of the set imports it, and, the cap not reached,
\* holds every file a readable file of the set imports at runtime.
C14_UnreadableTolerance ==
    /\ \A i \in UnreadableEntries(cache_text) : cache_text[i].val = ""
    /\ \A i \in UnreadableEntries(cache_imports) : cache_imports[i].val = <<>>
    /\ \A i \in UnreadableEntries(cache_exports) :
           cache_exports[i].val = ExportMap(<<>>, {})
    /\ Returned =>
           \A k \in DOMAIN results :
               ~CapReached(k) =>
                   \A f \in (results[k] \cap DOMAIN fs) \ unreadable :
                       \A g \in DOMAIN fs :
                           RuntimeEdges(f, g) # {} => g \in results[k]

\* index.ts, which imports ./z, cannot be read and is popped before x.ts: it
\* is in the set with no edge in the cache, and x.ts and z.ts, reached after
\* it, are in the set too
C14_Witness ==
    /\ Returned
    /\ unreadable = {B}
    /\ fs[E] = "import \"./b/x\";\nimport \"./b\";\n"
    /\ fs[B] = "import \"./z\";\n"
    /\ UnreadableEntries(cache_imports) # {}
    /\ results[1] = {E, B, X, Z}

\* C17: every path of a returned set is canonical (it is the path the file
\* system itself gives the file), so no file is in a set under two spellings.
C17_CanonicalOutput ==
    \A k \in DOMAIN results :
        /\ \A q \in results[k] : Lookup(q) = q
        /\ \A q1, q2 \in results[k] : Lookup(q1) = Lookup(q2) => q1 = q2

\* file f re-exports the name n from the specifier spec and from no other
ReExportsName(f, n, spec) ==
    /\ f \notin unreadable
    /\ n \in DOMAIN export_map(fs[f]).by_name
    /\ export_map(fs[f]).by_name[n] = {spec}

\* e.ts requests N from the barrel index.ts, which re-exports N from the
\* barrel y.ts, which re-exports N from x.ts
ReExportChain ==
    /\ \E e \in EdgesOf(E) :
           /\ ~e.type_only /\ e.imported = Some({"N"})
           /\ TargetOf(E, e.source) = B
    /\ ReExportsName(B, "N", "./y") /\ TargetOf(B, "./y") = Y
    /\ ReExportsName(Y, "N", "./x") /\ TargetOf(Y, "./x") = X

\* C18: when an importer of the set requests N through a chain of two
\* barrels, a set that did not stop at the cap holds both barrels and the
\* file at the end of the chain.
C18_ReExportChain ==
    (Returned /\ ReExportChain) =>
        \A k \in DOMAIN results :
            ~CapReached(k) => {B, Y, X} \subseteq results[k]

-----------------------------------------------------------------------------
(* Specification of two calls of dependency_closure on one tree: the second *)
(* call raises max_files by one, or leaves it at its default, or passes the *)
(* entries in the opposite order.  inp holds the arguments of the first.    *)

default_max_files == 600

InitVary ==
    /\ fs \in {t \in Trees : t[X] = "import \"./y\";\n"}
    /\ unreadable = {}
    /\ NoCall
    /\ fn = "dependency_closure" /\ out = Pending
    /\ inp \in [entry_points : EntryLists, max_files : 0..MaxCap]

CallFirst ==
    /\ results = <<>>
    /\ Call(inp.entry_points, inp.max_files)

CallAgain ==
    /\ Len(results) = 1
    /\ \/ Call(inp.entry_points, inp.max_files + 1)
       \/ Call(inp.entry_points, default_max_files)
       \/ Call([i \in DOMAIN inp.entry_points |->
                    inp.entry_points[Len(inp.entry_points) + 1 - i]],
               inp.max_files)

NextVary ==
    CallFirst \/ CallAgain \/ LoopSkip \/ LoopBreak \/ LoopExpand \/ Return

SpecVary == InitVary /\ [][NextVary]_vars

\* the second call has returned, with the entries of the first call in the
\* same order
SameEntriesAgain == Len(results) = 2 /\ pc = "idle" /\ entry_points = inp.entry_points

\* C15: on one tree and with the same entries, the set returned with
\* max_files = m is a subset of the set returned with max_files = m + 1 and
\* of the set returned with the default cap, which no tree here reaches.
C15_CappedLowerBound ==
    (SameEntriesAgain /\ max_files >= inp.max_files) =>
        /\ results[1] \subseteq results[2]
        /\ max_files = default_max_files => ~CapReached(2)

\* the first call stopped at the cap with two files or more, the second,
\* with the cap raised by one, returned one file more
C15_Witness ==
    /\ SameEntriesAgain
    /\ max_files = inp.max_files + 1
    /\ Cardinality(results[1]) >= 2
    /\ Cardinality(results[1]) > inp.max_files
    /\ Cardinality(results[2]) = Cardinality(results[1]) + 1

\* C19: with the cap not reached, the set returned does not depend on the
\* order of the entry files: the call with the entries in the opposite order
\* and the same cap returns the same set.
C19_OrderInsensitivity ==
    (/\ Len(results) = 2 /\ pc = "idle" /\ max_files = inp.max_files
     /\ ~CapReached(1) /\ ~CapReached(2)) =>
        results[1] = results[2]

-----------------------------------------------------------------------------
(* Specification of a process that calls one of the cached functions on one *)
(* new path after another: e.ts first, then paths that name no file.  inp   *)
(* is the number of the next call.  The process starts MaxReads calls short *)
(* of a full cache and goes on until MaxReads calls beyond it.              *)

MaxReads == 60

RECURSIVE Dec(_)
\* str(n) for n >= 0
Dec(n) ==
    LET Digit(d) == SubSeq("0123456789", d + 1, d + 1)
    IN  IF n < 10 THEN Digit(n) ELSE Dec(n \div 10) \o Digit(n % 10)

\* the path of call n
NthPath(n) == IF n = 1 THEN E ELSE "/r/src/gen/f" \o Dec(n) \o ".ts"

\* the caches after the calls 1..k of the function named f
Stored(f, k) ==
    LET Entry(n, v) == [key |-> NthPath(n), val |-> v]
    IN  [text |-> [n \in 1..k |-> Entry(n, file_text(NthPath(n)))],
         imports |-> IF f # "parse_imports" THEN <<>>
                     ELSE [n \in 1..k |->
                              Entry(n, import_edges(file_text(NthPath(n))))],
         exports |-> IF f # "parse_export_map" THEN <<>>
                     ELSE [n \in 1..k |->
                              Entry(n, export_map(file_text(NthPath(n))))]]

InitCache ==
    /\ fs = (E :> "import \"./b\";\nexport * from \"./z\";\n")
    /\ unreadable = {}
    /\ pc = "idle" /\ entry_points = <<>> /\ max_files = 0
    /\ visited = {} /\ queue = <<>> /\ results = <<>>
    /\ fn \in {"read_text", "parse_imports", "parse_export_map"}
    /\ inp = maxsize - MaxReads + 1 /\ out = Pending
    /\ cache_text = Stored(fn, inp - 1).text
    /\ cache_imports = Stored(fn, inp - 1).imports
    /\ cache_exports = Stored(fn, inp - 1).exports

CallCached ==
    /\ inp <= maxsize + MaxReads
    /\ inp' = inp + 1
    /\ \/ /\ fn = "read_text"
          /\ \E r \in {read_text(cache_text, NthPath(inp))} :
                 /\ out' = [val |-> r.val]
                 /\ cache_text' = r.ct
          /\ UNCHANGED <<cache_imports, cache_exports>>
       \/ /\ fn = "parse_imports"
          /\ \E r \in {parse_imports(cache_imports, cache_text, NthPath(inp))} :
                 /\ out' = [val |-> r.val]
                 /\ cache_imports' = r.ci
                 /\ cache_text' = r.ct
          /\ UNCHANGED cache_exports
       \/ /\ fn = "parse_export_map"
          /\ \E r \in {parse_export_map(cache_exports, cache_text, NthPath(inp))} :
                 /\ out' = [val |-> r.val]
                 /\ cache_exports' = r.ce
                 /\ cache_text' = r.ct
          /\ UNCHANGED cache_imports
    /\ UNCHANGED <<disk, call, fn>>

SpecCache == InitCache /\ [][CallCached]_vars

\* the cache c holds the value v for the path of call n
Holds(c, n, v) == CacheHit(c, NthPath(n)) /\ CacheVal(c, NthPath(n)) = v

\* C20: an entry once stored stays in its cache unchanged, however many
\* other paths are read or parsed afterwards; stated for the paths of the
\* first MaxReads calls.
C20_AdditiveOnlyCache ==
    \A n \in 1..MaxReads :
        n < inp =>
            /\ Holds(cache_text, n, file_text(NthPath(n)))
            /\ fn = "parse_imports" =>
                   Holds(cache_imports, n, import_edges(file_text(NthPath(n))))
            /\ fn = "parse_export_map" =>
                   Holds(cache_exports, n, export_map(file_text(NthPath(n))))

-----------------------------------------------------------------------------
(* Further properties of parse_import_clause under SpecClause.              *)

\* C22: a braced token with a leading type qualifier adds no name: T is not
\* in the result of a braced list that names T only as type T, and the
\* result of { type T } alone is None.
C22_TypeQualifiedDropped ==
    (fn = "parse_import_clause" /\ out # Pending /\ inp.braced) =>
        /\ (\E i \in DOMAIN inp.list : inp.list[i] = "type T") =>
               (out.val.is_none \/ "T" \notin out.val.names)
        /\ inp.text = "{ type T }" => out.val = NoneVal

-----------------------------------------------------------------------------
(* Specification of two calls of dependency_closure from e.ts in one        *)
(* process, with the text of e.ts written anew between the calls by         *)
(* another program.                                                         *)

InitEdit ==
    /\ fs \in {t \in Trees : t[X] = "import \"./y\";\n"}
    /\ unreadable = {}
    /\ NoCall
    /\ fn = "dependency_closure" /\ inp = <<>> /\ out = Pending

\* e.ts gets another text while no call is in progress
WriteFile ==
    /\ pc = "idle" /\ Len(results) = 1
    /\ \E t \in (TextsE \cup {"", "import \"./b/z\";\n"}) \ {fs[E]} :
           fs' = [fs EXCEPT ![E] = t]
    /\ UNCHANGED <<unreadable, caches, call, pure>>

CallEdit ==
    \E mf \in 0..MaxCap :
        /\ Len(results) < 2
        /\ results # <<>> => mf = max_files
        /\ Call(<<E>>, mf)

NextEdit ==
    CallEdit \/ WriteFile \/ LoopSkip \/ LoopBreak \/ LoopExpand \/ Return

SpecEdit == InitEdit /\ [][NextEdit]_vars

\* C21: a call uses nothing parsed during an earlier call: the set the second
\* call returns reflects the text e.ts has at that call, so, the cap not
\* reached, it holds every file e.ts now imports at runtime, and it holds
\* more than e.ts only if e.ts now has an import edge.
C21_RunScopedCache ==
    (Len(results) = 2 /\ pc = "idle" /\ ~CapReached(2)) =>
        /\ \A g \in DOMAIN fs : RuntimeEdges(E, g) # {} => g \in results[2]
        /\ EdgesOf(E) = {} => results[2] = {E}

-----------------------------------------------------------------------------
(* Further properties of dependency_closure under Spec: the steps of one    *)
(* iteration.                                                               *)

\* C23: a set returned without the cap reached holds, for every file of the
\* set, every file that one of its import edges that is not type-only
\* resolves to, whatever the request the file was first reached with.
C23_ClosedUnderOwnImports ==
    Returned =>
        \A k \in DOMAIN results :
            ~CapReached(k) =>
                \A f \in results[k] : \A e \in EdgesOf(f) :
                    (~e.type_only /\ TargetOf(f, e.source) # NoPath) =>
                        TargetOf(f, e.source) \in results[k]

\* the barrel is reached with the request {Foo}, follows its re-export of
\* Foo from ./x and still has its own import of ./z followed
C23_Witness ==
    /\ Returned /\ entry_points = <<E>>
    /\ fs[E] = "import { Foo } from \"./b\";\n"
    /\ "Foo" \in DOMAIN export_map(fs[B]).by_name
    /\ HasBareImport(B, "./z")
    /\ {E, B, X, Z} \subseteq results[1]

\* this step is one full iteration of the loop on the pair Top
Expands == pc = "loop" /\ pc' = "loop" /\ visited' # visited

\* the pairs this iteration appends to the queue
Pushed == SubSeq(queue', Len(queue), Len(queue'))

\* the pair it comes from an import edge of Top.path that is not type-only
OwnPush(it) ==
    \E e \in EdgesOf(Top.path) :
        /\ ~e.type_only
        /\ TargetOf(Top.path, e.source) = it.path
        /\ e.imported = it.requested

\* C25: an iteration on a pair with requested = None appends only the
\* targets of the file's own import edges that are not type-only, each with
\* the names of its edge; nothing is appended for an export ... from.
C25_NoBarrelStepUnrequested ==
    [][(Expands /\ Top.requested = NoneVal) =>
           \A i \in DOMAIN Pushed : OwnPush(Pushed[i])]_vars

\* the barrel export * from "./z" is the entry: it is expanded with
\* requested = None and z.ts is not reached
C25_Witness ==
    /\ Returned /\ entry_points = <<B>> /\ max_files >= 1
    /\ ReExports(B) = {"./z"}
    /\ results[1] = {B}

\* the pair Top requests names, none of them * or default or a key of the
\* file's by_name, and the file has no star re-export
NamedMiss ==
    /\ ~Top.requested.is_none /\ Top.requested.names # {}
    /\ Top.requested.names \cap ({"*", "default"}
           \cup DOMAIN export_map(fs[Top.path]).by_name) = {}
    /\ export_map(fs[Top.path]).stars = {}

\* C26: an iteration on a pair whose names all miss, with no star to fall
\* back to, appends nothing for the barrel step: the file is added to the
\* visited set, and the pairs appended are those of its own import edges
\* that are not type-only, all of them.
C26_NamedMissDropped ==
    [][(Expands /\ NamedMiss) =>
           /\ Top.path \in visited'
           /\ \A i \in DOMAIN Pushed : OwnPush(Pushed[i])
           /\ \A e \in EdgesOf(Top.path) :
                  (~e.type_only /\ TargetOf(Top.path, e.source) # NoPath) =>
                      \E i \in DOMAIN Pushed :
                          /\ Pushed[i].path = TargetOf(Top.path, e.source)
                          /\ Pushed[i].requested = e.imported]_vars

\* e.ts requests Bar from a barrel that re-exports only Foo by name and has
\* no star: x.ts is not reached, the barrel is in the set and its own import
\* of ./z is followed
C26_Witness ==
    /\ Returned /\ entry_points = <<E>>
    /\ \E e \in RuntimeEdges(E, B) : e.imported = Some({"Bar"})
    /\ "Foo" \in DOMAIN export_map(fs[B]).by_name
    /\ "Bar" \notin DOMAIN export_map(fs[B]).by_name
    /\ export_map(fs[B]).stars = {}
    /\ HasBareImport(B, "./z")
    /\ results[1] = {E, B, Z}

\* the request r holds * or default
WantsAll(r) == ~r.is_none /\ ({"*", "default"} \cap r.names) # {}

\* every re-export source of f that resolves to a file
ReExportTargets(f) == {TargetOf(f, spec) : spec \in ReExports(f)} \ {NoPath}

\* the pairs the iteration on Top appends to the queue
TopItems == Iteration(Root, Top, cache_exports, cache_imports, cache_text).items

\* the iteration on a pair that requests * or default appends every
\* resolvable re-export source of the file with requested = None
StepFollowsAll ==
    (ExpandEnabled /\ WantsAll(Top.requested)) =>
        \A g \in ReExportTargets(Top.path) :
            \E i \in DOMAIN TopItems : TopItems[i] = [path |-> g, requested |-> NoneVal]

\* a set returned without the cap reached holds every resolvable re-export
\* source of each module that a file of the set imports by default or by
\* namespace
ClosureFollowsAll ==
    Returned =>
        \A k \in DOMAIN results :
            ~CapReached(k) =>
                \A f \in results[k] : \A e \in EdgesOf(f) :
                    (/\ ~e.type_only /\ WantsAll(e.imported)
                     /\ TargetOf(f, e.source) # NoPath) =>
                        ReExportTargets(TargetOf(f, e.source)) \subseteq results[k]

\* C24: a file expanded with a request that holds * or default has every
\* resolvable specifier of its stars and of its by_name entries queued with
\* requested = None, so a default or namespace import of a barrel puts all
\* the resolvable re-export sources of the barrel into the closure, the cap
\* not reached.
C24_NamespaceFollowsAll == StepFollowsAll /\ ClosureFollowsAll

-----------------------------------------------------------------------------
(* Specification of one call of dependency_closure on names that the OS and *)
(* pathlib treat in a way of their own: a file name of more than 255 bytes  *)
(* as an entry, as an import specifier and as a re-export specifier, a root *)
(* of two slashes, and lines that end with a carriage return.               *)

LongEntry == "/r/src/" \o LongName(256)

NamesTextsE == {
    "import \"./b/x\";\nimport \"./b\";\n",
    "import \"./b\";\n" \o ImportOf("./" \o LongName(252)),
    "import { Foo } from \"./b\";\n",
    "import \"@///r/src/b/x\";\nimport \"./b/x\";\n",
    "// c\rimport \"./b/x\";\r" }

NamesTextsB == {
    "import \"./z\";\n",
    "export { Foo } from \"./" \o LongName(256) \o "\";\nimport \"./z\";\n" }

NamesTrees ==
    {(E :> e @@ B :> b @@ X :> "import \"./z\";\n" @@ Z :> "") :
        e \in NamesTextsE, b \in NamesTextsB}

NamesEntries ==
    {<<E>>, <<LongEntry>>, <<B, LongEntry>>, <<LongEntry, E>>,
     <<"//r/src/e.ts">>, <<Missing, E>>}

InitNames ==
    /\ fs \in NamesTrees
    /\ unreadable = {}
    /\ NoCall
    /\ fn = "dependency_closure" /\ inp = <<>> /\ out = Pending

CallNames ==
    \E eps \in NamesEntries, mf \in 0..MaxCap :
        /\ results = <<>>
        /\ Call(eps, mf)

NextNames == CallNames \/ LoopSkip \/ LoopBreak \/ LoopExpand \/ Return

SpecNames == InitNames /\ [][NextNames]_vars

\* C27: the seeding of the queue ends without an error, whatever the entry
\* paths are; an entry path that is no existing regular file is skipped and
\* is in no returned set; an entry that is an existing regular file is in
\* the set whenever the cap is not reached, also when the file has no import.
C27_EntrySeeding ==
    /\ ~(pc = "raised" /\ visited = {})
    /\ pc = "loop" =>
           \A i \in DOMAIN queue : is_file(queue[i].path)
    /\ Returned =>
           \A k \in DOMAIN results :
               /\ \A q \in results[k] : is_file(q)
               /\ ~CapReached(k) =>
                      \A i \in DOMAIN entry_points :
                          is_file(entry_points[i]) =>
                              resolve(entry_points[i]) \in results[k]

\* the files that module b re-exports under one of the names
NamedTargets(b, names) ==
    {TargetOf(b, spec) :
        spec \in UNION {export_map(fs[b]).by_name[n] :
                            n \in names \cap DOMAIN export_map(fs[b]).by_name}}
        \ {NoPath}

\* C28: a set returned without the cap reached holds, for every file F of
\* the set and every import edge of F that is not type-only and requests
\* names from a module, every file the module re-exports those names from,
\* also when the module is reached with other requests or with None.
C28_EveryRequestHonoured ==
    Returned =>
        \A k \in DOMAIN results :
            ~CapReached(k) =>
                \A f \in results[k] : \A e \in EdgesOf(f) :
                    (/\ ~e.type_only /\ ~e.imported.is_none
                     /\ TargetOf(f, e.source) # NoPath) =>
                        NamedTargets(TargetOf(f, e.source), e.imported.names)
                            \subseteq results[k]

\* this step stops the traversal at the cap
Breaks == pc = "loop" /\ queue # <<>> /\ pc' = "idle"

\* C30: in every call the returned set has at most max_files + 1 files and
\* at most max_files files are expanded (while the loop runs, every visited
\* file has been expanded); the step that stops at the cap adds the popped
\* file to the set and returns it, and runs neither the barrel step nor the
\* own-imports step: nothing is queued and nothing is read or parsed.
C30_CapAccounting ==
    [][/\ pc' = "loop" => Cardinality(visited') <= max_files'
       /\ \A k \in DOMAIN results' : Cardinality(results'[k]) <= max_files' + 1
       /\ Breaks =>
              /\ Top.path \notin visited
              /\ results' = Append(results, visited \cup {Top.path})
              /\ Cardinality(visited) = max_files
              /\ queue' = DropLast(queue)
              /\ UNCHANGED caches]_vars

\* the call from e.ts with max_files = 1 stops when the barrel is added: the
\* set is {e.ts, index.ts}, and the barrel, which re-exports from other
\* files, has not been parsed
C30_Witness ==
    /\ Returned /\ Len(results) = 1
    /\ entry_points = <<E>> /\ max_files = 1
    /\ results[1] = {E, B}
    /\ ReExportTargets(B) # {}
    /\ ~CacheHit(cache_imports, B) /\ ~CacheHit(cache_exports, B)

-----------------------------------------------------------------------------
(* Specification of three calls of dependency_closure on one tree with one  *)
(* cap: with the entries inp.first, with the entries inp.second, and with   *)
(* inp.first followed by inp.second.                                        *)

InitUnion ==
    /\ fs \in {t \in Trees : t[X] = "export const Foo = 1;\n"}
    /\ unreadable = {}
    /\ NoCall
    /\ fn = "dependency_closure" /\ out = Pending
    /\ inp \in [first : {<<E>>, <<B>>, <<Missing>>},
                second : {<<E>>, <<B>>, <<Missing>>},
                max_files : 0..MaxCap]

CallUnion ==
    \/ /\ Len(results) = 0
       /\ Call(inp.first, inp.max_files)
    \/ /\ Len(results) = 1
       /\ Call(inp.second, inp.max_files)
    \/ /\ Len(results) = 2
       /\ Call(inp.first \o inp.second, inp.max_files)

NextUnion == CallUnion \/ LoopSkip \/ LoopBreak \/ LoopExpand \/ Return

SpecUnion == InitUnion /\ [][NextUnion]_vars

\* C29: when none of the three calls reaches the cap, the set returned for
\* the entries E1 followed by E2 is the union of the sets returned for E1
\* and for E2.
C29_ClosureDistributes ==
    (/\ Len(results) = 3 /\ pc = "idle"
     /\ \A k \in 1..3 : ~CapReached(k)) =>
        results[3] = results[1] \cup results[2]

====
